---- MODULE Spec2Model ----
(***************************************************************************)
(* compare_and_replace.py: compare the current and the ".new" version of   *)
(* each designated file or directory and, at the operator's option,        *)
(* replace the current one with the new one.                               *)
(*                                                                         *)
(* Paths and entry names are sequences of one-character strings, so that   *)
(* suffix tests, concatenations, glob matches and sorting are computed as  *)
(* the program computes them.  The file system maps every top-level path   *)
(* to a node; a directory node holds its entries, a symlink node holds     *)
(* what its target resolves to.  The run is modelled without the -d        *)
(* option (common_dir_prefix = None).                                      *)
(***************************************************************************)
EXTENDS Integers, Sequences, FiniteSets, TLC

VARIABLES
    fs,           \* the file system: top-level path -> node
    argv,         \* the path arguments of the run
    idx,          \* position of main's for loop in argv (1-based)
    pc,           \* where the process is
    cur_path,     \* main's cur_path / handle_dirs' cur_root
    new_path,     \* main's new_path / handle_dirs' new_root
    action_for_item_,  \* handle_dirs' map from relative path to verb
    would_,       \* handle_dirs' verb groups
    response,     \* the line get_input read last in the current call of
                  \* handle_files or handle_dirs ("" before the first)
    exit_status,  \* "running", 0 or 1
    errlog,       \* the status lines written for each argument
    views,        \* the diff viewer invocations, in order
    inputs,       \* number of lines read from the console
    pre,          \* the file system when main took up argv[idx]
    start         \* the file system when the run began

vars == <<fs, argv, idx, pc, cur_path, new_path, action_for_item_, would_,
          response, exit_status, errlog, views, inputs, pre, start>>

\* ------------------------------------------------------------------ bounds
MaxArgs == 2
MaxInputs == 1

\* ------------------------------------------------------------ strings
DotNew == <<".", "n", "e", "w">>
DotBak == <<".", "b", "a", "k">>
Slash == <<"/">>
Dot == <<".">>

\* Code points, for the order Python's sorted() puts strings in.
Ord(c) ==
    CASE c = "." -> 46
      [] c = "/" -> 47
      [] c = "a" -> 97
      [] c = "b" -> 98
      [] c = "c" -> 99
      [] c = "e" -> 101
      [] c = "k" -> 107
      [] c = "n" -> 110
      [] c = "p" -> 112
      [] c = "s" -> 115
      [] c = "w" -> 119
      [] c = "x" -> 120
      [] c = "y" -> 121

RECURSIVE StrLess(_, _)
StrLess(s, t) ==
    IF t = <<>> THEN FALSE
    ELSE IF s = <<>> THEN TRUE
    ELSE IF Head(s) = Head(t) THEN StrLess(Tail(s), Tail(t))
    ELSE Ord(Head(s)) < Ord(Head(t))

\* Mutant of sorted: the elements of S in decreasing order.
RECURSIVE sorted_descending(_)
sorted_descending(S) ==
    IF S = {} THEN <<>>
    ELSE LET m == CHOOSE x \in S : \A y \in S \ {x} : StrLess(y, x)
         IN <<m>> \o sorted_descending(S \ {m})

\* sorted(): the elements of S in increasing order.
RECURSIVE sorted(_)
sorted(S) ==
    IF S = {} THEN <<>>
    ELSE LET m == CHOOSE x \in S : \A y \in S \ {x} : StrLess(x, y)
         IN <<m>> \o sorted(S \ {m})

endswith(s, suf) ==
    /\ Len(s) >= Len(suf)
    /\ SubSeq(s, Len(s) - Len(suf) + 1, Len(s)) = suf

\* fnmatch.fnmatchcase(name, '.*.swp')
fnmatchcase(name) ==
    /\ Len(name) >= 5
    /\ Head(name) = "."
    /\ endswith(name, <<".", "s", "w", "p">>)

\* ------------------------------------------------------------ file system
Absent == [k |-> "absent"]
Other == [k |-> "other"]
Reg(c) == [k |-> "reg", c |-> c]
Dir(e) == [k |-> "dir", e |-> e]
Lnk(t) == [k |-> "lnk", t |-> t]

\* What a path resolves to when symlinks are followed.
Follow(node) == IF node.k = "lnk" THEN node.t ELSE node

\* os.path.exists / os.path.isdir follow symlinks.
exists(f, p) == Follow(f[p]).k # "absent"
isdir(f, p) == Follow(f[p]).k = "dir"

\* Mutant of get_type: stat instead of lstat, so symlinks are followed.
get_type_following(f, p) ==
    IF Follow(f[p]).k = "dir" THEN "dir"
    ELSE IF Follow(f[p]).k = "reg" THEN "reg"
    ELSE "other"

\* get_type uses lstat: a symlink is neither a directory nor a regular file.
get_type(f, p) ==
    IF f[p].k = "dir" THEN "dir"
    ELSE IF f[p].k = "reg" THEN "reg"
    ELSE "other"

\* filecmp.cmp(a, b, shallow=False) on two regular files.
cmp(a, b) == Follow(a).k = "reg" /\ Follow(b).k = "reg" /\ Follow(a).c = Follow(b).c

\* Mutant of rename: the two paths are taken in the other order.
rename_reversed(f, src, dst) ==
    IF f[dst].k = "absent" \/ f[src].k = "dir"
    THEN [ok |-> FALSE, fs |-> f]
    ELSE [ok |-> TRUE, fs |-> [f EXCEPT ![src] = f[dst], ![dst] = Absent]]

\* Mutant of rename: the source is copied, not moved.
rename_copy(f, src, dst) ==
    IF f[src].k = "absent" \/ f[dst].k = "dir"
    THEN [ok |-> FALSE, fs |-> f]
    ELSE [ok |-> TRUE, fs |-> [f EXCEPT ![dst] = f[src]]]

\* os.rename(src, dst): ok is FALSE when the call raises OSError.
rename(f, src, dst) ==
    LET s == f[src]
        d == f[dst]
        moved == [f EXCEPT ![dst] = s, ![src] = Absent]
    IN  IF s.k = "absent" THEN [ok |-> FALSE, fs |-> f]
        ELSE IF d.k = "absent" THEN [ok |-> TRUE, fs |-> moved]
        ELSE IF s.k = "dir"
             THEN IF d.k = "dir" /\ DOMAIN d.e = {}
                  THEN [ok |-> TRUE, fs |-> moved]
                  ELSE [ok |-> FALSE, fs |-> f]
        ELSE IF d.k = "dir" THEN [ok |-> FALSE, fs |-> f]
        ELSE [ok |-> TRUE, fs |-> moved]

\* Mutant of remove: the file is left where it is.
remove_skipped(f, p) == f

\* os.remove(p) on a non-directory.
remove(f, p) == [f EXCEPT ![p] = Absent]

\* shutil.rmtree(p), run to completion, on a real directory.
rmtree(f, p) == [f EXCEPT ![p] = Absent]

\* ------------------------------------------------------------ handle_dirs
\* os.scandir(path) minus the entries the swap-file glob ignores.
\* Mutant of scandir: the swap-file glob is not applied.
scandir_unfiltered(node) == DOMAIN Follow(node).e

scandir(node) == {nm \in DOMAIN Follow(node).e : ~fnmatchcase(nm)}

\* DirEntry.is_file(follow_symlinks=False) and DirEntry.is_dir().
is_file(node) == node.k = "reg"
is_dir(node) == Follow(node).k = "dir"

\* Mutant of recurse_on_rel_path: a change of type counts as an alteration.
RECURSIVE recurse_on_rel_path_altering(_, _, _)
recurse_on_rel_path_altering(c, n, dir_rel_path) ==
    LET ce == Follow(c).e
        ne == Follow(n).e
        d == scandir(c) \cup scandir(n)
        item_rel_path(nm) == dir_rel_path \o Slash \o nm
        one(nm) ==
            IF nm \notin scandir(n)
            THEN [ok |-> TRUE, acts |-> item_rel_path(nm) :> "delete"]
            ELSE IF nm \notin scandir(c)
            THEN [ok |-> TRUE, acts |-> item_rel_path(nm) :> "create"]
            ELSE IF is_file(ce[nm]) /\ is_file(ne[nm])
            THEN IF cmp(ce[nm], ne[nm])
                 THEN [ok |-> TRUE, acts |-> item_rel_path(nm) :> "leave"]
                 ELSE [ok |-> TRUE, acts |-> item_rel_path(nm) :> "alter"]
            ELSE IF is_dir(ce[nm]) /\ is_dir(ne[nm])
            THEN recurse_on_rel_path_altering(ce[nm], ne[nm], item_rel_path(nm))
            ELSE [ok |-> TRUE, acts |-> item_rel_path(nm) :> "alter"]
        keys == UNION {DOMAIN one(nm).acts : nm \in d}
    IN  [ok |-> \A nm \in d : one(nm).ok,
         acts |-> [p \in keys |->
                     one(CHOOSE nm \in d : p \in DOMAIN one(nm).acts).acts[p]]]

\* recurse_on_rel_path: c and n are the directories at cur_root/rel and
\* new_root/rel.  ok is FALSE when the walk stops on the change-of-type
\* assertion; acts is its contribution to action_for_item_.
RECURSIVE recurse_on_rel_path(_, _, _)
recurse_on_rel_path(c, n, dir_rel_path) ==
    LET ce == Follow(c).e
        ne == Follow(n).e
        d == scandir(c) \cup scandir(n)
        item_rel_path(nm) == dir_rel_path \o Slash \o nm
        one(nm) ==
            IF nm \notin scandir(n)
            THEN [ok |-> TRUE, acts |-> item_rel_path(nm) :> "delete"]
            ELSE IF nm \notin scandir(c)
            THEN [ok |-> TRUE, acts |-> item_rel_path(nm) :> "create"]
            ELSE IF is_file(ce[nm]) /\ is_file(ne[nm])
            THEN IF cmp(ce[nm], ne[nm])
                 THEN [ok |-> TRUE, acts |-> item_rel_path(nm) :> "leave"]
                 ELSE [ok |-> TRUE, acts |-> item_rel_path(nm) :> "alter"]
            ELSE IF is_dir(ce[nm]) /\ is_dir(ne[nm])
            THEN recurse_on_rel_path(ce[nm], ne[nm], item_rel_path(nm))
            ELSE [ok |-> FALSE, acts |-> <<>>]
        keys == UNION {DOMAIN one(nm).acts : nm \in d}
    IN  [ok |-> \A nm \in d : one(nm).ok,
         acts |-> [p \in keys |->
                     one(CHOOSE nm \in d : p \in DOMAIN one(nm).acts).acts[p]]]

Verbs == {"delete", "create", "alter", "leave"}

\* would_: the paths of each verb, in the order of sorted(action_for_item_).
group(actions) ==
    [verb \in Verbs |->
        sorted({p \in DOMAIN actions : actions[p] = verb})]

NoGroups == [verb \in Verbs |-> <<>>]

\* Mutant of no_effect: the leave group has to be empty as well.
no_effect_strict(w) == \A verb \in Verbs : Len(w[verb]) = 0

no_effect(w) == \A verb \in {"delete", "create", "alter"} : Len(w[verb]) = 0

\* ------------------------------------------------------------------- main
\* Lines 27-32: the argument names the current object or its candidate.
CurOf(path) == IF endswith(path, DotNew) THEN SubSeq(path, 1, Len(path) - 4) ELSE path
NewOf(path) == IF endswith(path, DotNew) THEN path ELSE path \o DotNew

Line(tag) == [arg |-> idx, msg |-> tag]

\* gdiff(L_path, R_path): one viewer invocation; retcode is the viewer's status.
gdiff(L_path, R_path, retcode) == [L |-> L_path, R |-> R_path, rc |-> retcode]

\* Leave the per-argument code and go on with the for loop.
Continue(f, tag) ==
    /\ fs' = f
    /\ errlog' = Append(errlog, Line(tag))
    /\ idx' = idx + 1
    /\ pc' = "main"

\* An uncaught exception: traceback, exit status 1.
Raise(f) ==
    /\ fs' = f
    /\ errlog' = Append(errlog, Line("Traceback"))
    /\ pc' = "crashed"
    /\ exit_status' = 1
    /\ UNCHANGED idx

\* handle_files up to its prompt (lines 78-86).
handle_files_begin(cur, new) ==
    IF cmp(fs[cur], fs[new])
    THEN /\ Continue(remove(fs, new), "No change")
         /\ UNCHANGED <<views, exit_status>>
    ELSE /\ \E retcode \in {0, 1} : views' = Append(views, gdiff(cur, new, retcode))
         /\ pc' = "file_prompt"
         /\ UNCHANGED <<fs, errlog, idx, exit_status>>

\* handle_dirs up to its prompt (lines 110-186).
handle_dirs_begin(cur, new) ==
    LET walk == recurse_on_rel_path(fs[cur], fs[new], Dot)
        w == group(walk.acts)
    IN  IF ~walk.ok
        THEN Raise(fs) /\ UNCHANGED <<views, would_, action_for_item_>>
        ELSE IF no_effect(w)
        THEN /\ action_for_item_' = walk.acts
             /\ would_' = w
             /\ Continue(rmtree(fs, new), "no effect")
             /\ UNCHANGED <<views, exit_status>>
        ELSE /\ action_for_item_' = walk.acts
             /\ would_' = w
             /\ pc' = "dir_prompt"
             /\ UNCHANGED <<fs, errlog, idx, views, exit_status>>

\* One iteration of main's for loop, up to the first prompt (lines 21-67).
MainArg ==
    /\ pc = "main"
    /\ idx <= Len(argv)
    /\ LET cur == CurOf(argv[idx])
           new == NewOf(argv[idx])
       IN  /\ cur_path' = cur
           /\ new_path' = new
           /\ pre' = fs
           /\ IF ~exists(fs, new)
              THEN /\ Continue(fs, "ERROR new_path does not exist")
                   /\ UNCHANGED <<views, would_, action_for_item_, exit_status>>
              ELSE IF ~exists(fs, cur)
              THEN LET r == rename(fs, new, cur)
                   IN  IF r.ok
                       THEN /\ Continue(r.fs, "installing there")
                            /\ UNCHANGED <<views, would_, action_for_item_, exit_status>>
                       ELSE /\ errlog' = errlog \o <<Line("installing there"), Line("Traceback")>>
                            /\ fs' = r.fs
                            /\ pc' = "crashed"
                            /\ exit_status' = 1
                            /\ UNCHANGED <<idx, views, would_, action_for_item_>>
              ELSE IF get_type(fs, cur) = "other"
              THEN /\ Continue(fs, "ERROR cur neither")
                   /\ UNCHANGED <<views, would_, action_for_item_, exit_status>>
              ELSE IF get_type(fs, new) = "other"
              THEN /\ Continue(fs, "ERROR new neither")
                   /\ UNCHANGED <<views, would_, action_for_item_, exit_status>>
              ELSE IF get_type(fs, cur) # get_type(fs, new)
              THEN /\ Continue(fs, "ERROR type differs")
                   /\ UNCHANGED <<views, would_, action_for_item_, exit_status>>
              ELSE IF get_type(fs, cur) = "reg"
              THEN handle_files_begin(cur, new) /\ UNCHANGED <<would_, action_for_item_>>
              ELSE handle_dirs_begin(cur, new)
    /\ response' = ""
    /\ UNCHANGED <<argv, start, inputs>>

\* main returns after the last argument: the process ends with status 0.
MainReturn ==
    /\ pc = "main"
    /\ idx > Len(argv)
    /\ pc' = "done"
    /\ exit_status' = 0
    /\ UNCHANGED <<fs, argv, start, idx, cur_path, new_path, would_, action_for_item_, response,
                   errlog, views, inputs, pre>>

\* ------------------------------------------------------------- get_input
Keys == {"a", "b", "c", "d", "l", "n", "q", "y", "z"}
FileResponses == {"y", "b", "n", "q"}
DirResponses == {"d", "c", "a", "l", "y", "n"}

\* Mutant of Reprompt: get_input returns the line whatever it is, and the
\* caller falls into its final else branch.
Reprompt_returning(valid_responses) ==
    /\ inputs < MaxInputs
    /\ \E line \in Keys \ valid_responses : response' = line
    /\ inputs' = inputs + 1
    /\ Raise(fs)
    /\ UNCHANGED <<argv, start, cur_path, new_path, would_, action_for_item_, views, pre>>

\* get_input: a line outside valid_responses is reported and asked again.
Reprompt(valid_responses) ==
    /\ inputs < MaxInputs
    /\ \E line \in Keys \ valid_responses : response' = line
    /\ inputs' = inputs + 1
    /\ UNCHANGED <<fs, argv, start, idx, pc, cur_path, new_path, would_, action_for_item_,
                   exit_status, errlog, views, pre>>

FileReprompt == pc = "file_prompt" /\ Reprompt(FileResponses)
DirReprompt == pc = "dir_prompt" /\ Reprompt(DirResponses)

\* Mutant of backup_then_replace: the previous backup is not removed first.
backup_over_previous(f, cur, new) ==
    LET backed == rename(f, cur, cur \o DotBak)
        installed == rename(backed.fs, new, cur)
    IN  IF ~backed.ok THEN backed ELSE installed

\* --------------------------------------------- handle_files, lines 87-108
\* response 'b': lines 91-100.  ok is FALSE when a call raises.
backup_then_replace(f, cur, new) ==
    LET bak_path == cur \o DotBak
        cleared ==
            IF isdir(f, bak_path)
            THEN IF f[bak_path].k = "lnk"
                 THEN [ok |-> FALSE, fs |-> f]
                 ELSE [ok |-> TRUE, fs |-> rmtree(f, bak_path)]
            ELSE IF exists(f, bak_path)
            THEN [ok |-> TRUE, fs |-> remove(f, bak_path)]
            ELSE [ok |-> TRUE, fs |-> f]
        backed == rename(cleared.fs, cur, bak_path)
        installed == rename(backed.fs, new, cur)
    IN  IF ~cleared.ok THEN cleared
        ELSE IF ~backed.ok THEN backed
        ELSE installed

FileAnswer(r) ==
    /\ pc = "file_prompt"
    /\ r \in FileResponses
    /\ response' = r
    /\ inputs' = inputs + 1
    /\ CASE r = "y" ->
              LET res == rename(fs, new_path, cur_path)
              IN  /\ IF res.ok
                     THEN /\ fs' = res.fs /\ idx' = idx + 1 /\ pc' = "main"
                          /\ UNCHANGED <<errlog, exit_status>>
                     ELSE Raise(res.fs)
         [] r = "b" ->
              LET res == backup_then_replace(fs, cur_path, new_path)
              IN  /\ IF res.ok
                     THEN /\ fs' = res.fs /\ idx' = idx + 1 /\ pc' = "main"
                          /\ UNCHANGED <<errlog, exit_status>>
                     ELSE Raise(res.fs)
         [] r = "n" ->
              /\ Continue(fs, "(not overwriting)")
              /\ UNCHANGED exit_status
         [] r = "q" ->
              /\ pc' = "exited"
              /\ exit_status' = 1
              /\ UNCHANGED <<fs, idx, errlog>>
    /\ UNCHANGED <<argv, start, cur_path, new_path, would_, action_for_item_, views, pre>>

\* Mutant of FileQ: 'q' leaves handle_files like 'n' does.
FileQ_returning ==
    /\ pc = "file_prompt"
    /\ response' = "q"
    /\ inputs' = inputs + 1
    /\ fs' = fs /\ idx' = idx + 1 /\ pc' = "main"
    /\ UNCHANGED <<argv, start, cur_path, new_path, would_, action_for_item_, views, pre, errlog,
                   exit_status>>

FileY == FileAnswer("y")
FileB == FileAnswer("b")
FileN == FileAnswer("n")
FileQ == FileAnswer("q")

\* -------------------------------------------- handle_dirs, lines 188-209
VerbOf(r) ==
    CASE r = "d" -> "delete"
      [] r = "c" -> "create"
      [] r = "a" -> "alter"
      [] r = "l" -> "leave"

\* Mutant of DirExamine: a viewer that ends with a non-zero status ends the loop.
DirExamine_stopping(r) ==
    /\ pc = "dir_prompt"
    /\ r \in {"d", "c", "a", "l"}
    /\ inputs < MaxInputs
    /\ inputs' = inputs + 1
    /\ response' = r
    /\ LET items == would_[VerbOf(r)]
       IN  \E rcs \in [1 .. Len(items) -> {0, 1}] :
              LET last == IF \E j \in 1 .. Len(items) : rcs[j] = 1
                          THEN CHOOSE j \in 1 .. Len(items) :
                                   rcs[j] = 1 /\ \A h \in 1 .. j - 1 : rcs[h] = 0
                          ELSE Len(items)
              IN  views' = views \o
                      [j \in 1 .. last |->
                          gdiff(cur_path \o Slash \o items[j],
                                new_path \o Slash \o items[j], rcs[j])]
    /\ UNCHANGED <<fs, argv, start, idx, pc, cur_path, new_path, would_, action_for_item_,
                   exit_status, errlog, pre>>

\* Lines 200-209: the viewer is run on each path of the chosen group.
DirExamine(r) ==
    /\ pc = "dir_prompt"
    /\ r \in {"d", "c", "a", "l"}
    /\ inputs < MaxInputs
    /\ inputs' = inputs + 1
    /\ response' = r
    /\ LET items == would_[VerbOf(r)]
       IN  \E rcs \in [1 .. Len(items) -> {0, 1}] :
              views' = views \o
                  [j \in 1 .. Len(items) |->
                      gdiff(cur_path \o Slash \o items[j],
                            new_path \o Slash \o items[j], rcs[j])]
    /\ UNCHANGED <<fs, argv, start, idx, pc, cur_path, new_path, would_, action_for_item_,
                   exit_status, errlog, pre>>

DirD == DirExamine("d")
DirC == DirExamine("c")
DirA == DirExamine("a")
DirL == DirExamine("l")

\* Mutant of DirN: the skipped new tree is removed.
DirN_discarding ==
    /\ pc = "dir_prompt"
    /\ response' = "n"
    /\ inputs' = inputs + 1
    /\ Continue(rmtree(fs, new_path), "skipping")
    /\ UNCHANGED <<argv, start, cur_path, new_path, would_, action_for_item_, exit_status, views, pre>>

\* Mutant of DirN: the answer 'n' empties the current tree.
DirN_emptying ==
    /\ pc = "dir_prompt"
    /\ response' = "n"
    /\ inputs' = inputs + 1
    /\ Continue([fs EXCEPT ![cur_path] = Dir(<<>>)], "skipping")
    /\ UNCHANGED <<argv, start, cur_path, new_path, would_, action_for_item_, exit_status, views, pre>>

\* Lines 196-198.
DirN ==
    /\ pc = "dir_prompt"
    /\ response' = "n"
    /\ inputs' = inputs + 1
    /\ Continue(fs, "skipping")
    /\ UNCHANGED <<argv, start, cur_path, new_path, would_, action_for_item_, exit_status, views, pre>>

\* Lines 191-193: the answer 'y' starts shutil.rmtree(cur_root).
DirY ==
    /\ pc = "dir_prompt"
    /\ response' = "y"
    /\ inputs' = inputs + 1
    /\ errlog' = Append(errlog, Line("installing"))
    /\ pc' = "rmtree"
    /\ UNCHANGED <<fs, argv, start, idx, cur_path, new_path, would_, action_for_item_, exit_status,
                   views, pre>>

\* Mutant of RmtreeStep: the removal is left after its first step.
RmtreeStep_unfinished ==
    /\ pc = "rmtree"
    /\ LET e == fs[cur_path].e
       IN  IF DOMAIN e = {}
           THEN fs' = [fs EXCEPT ![cur_path] = Absent]
           ELSE \E nm \in DOMAIN e :
                   fs' = [fs EXCEPT ![cur_path] =
                             Dir([x \in DOMAIN e \ {nm} |-> e[x]])]
    /\ pc' = "rename"
    /\ UNCHANGED <<argv, start, idx, cur_path, new_path, would_, action_for_item_, response,
                   exit_status, errlog, views, inputs, pre>>

\* shutil.rmtree(cur_root) at work: it empties the directory entry by entry,
\* in the order the listing happens to give, and removes it last.
RmtreeStep ==
    /\ pc = "rmtree"
    /\ LET e == fs[cur_path].e
       IN  IF DOMAIN e = {}
           THEN /\ fs' = [fs EXCEPT ![cur_path] = Absent]
                /\ pc' = "rename"
           ELSE /\ \E nm \in DOMAIN e :
                      fs' = [fs EXCEPT ![cur_path] =
                                Dir([x \in DOMAIN e \ {nm} |-> e[x]])]
                /\ pc' = "rmtree"
    /\ UNCHANGED <<argv, start, idx, cur_path, new_path, would_, action_for_item_, response,
                   exit_status, errlog, views, inputs, pre>>

\* Mutant of InstallRename: the entries the walk ignored are not installed.
InstallRename_reported ==
    /\ pc = "rename"
    /\ LET res == rename(fs, new_path, cur_path)
           e == res.fs[cur_path].e
       IN  IF res.ok
           THEN /\ fs' = [res.fs EXCEPT ![cur_path] =
                           Dir([nm \in {m \in DOMAIN e : ~fnmatchcase(m)} |-> e[nm]])]
                /\ idx' = idx + 1 /\ pc' = "main"
                /\ UNCHANGED <<errlog, exit_status>>
           ELSE Raise(res.fs)
    /\ UNCHANGED <<argv, start, cur_path, new_path, would_, action_for_item_, response, views,
                   inputs, pre>>

\* Lines 194-195: os.rename(new_root, cur_root), then return.
InstallRename ==
    /\ pc = "rename"
    /\ LET res == rename(fs, new_path, cur_path)
       IN  IF res.ok
           THEN /\ fs' = res.fs /\ idx' = idx + 1 /\ pc' = "main"
                /\ UNCHANGED <<errlog, exit_status>>
           ELSE Raise(res.fs)
    /\ UNCHANGED <<argv, start, cur_path, new_path, would_, action_for_item_, response, views,
                   inputs, pre>>

\* ------------------------------------------------------------------- runs
A == <<"a">>
B == <<"b">>
X == <<"x">>
Y == <<"y">>

\* The arguments a run may be given; they make main touch a, a.new, a.bak,
\* b, b.new and b.bak.
Args == {A, A \o DotNew, B}

Batches == UNION {[1 .. n -> Args] : n \in 1 .. MaxArgs}

\* The directories over `names` whose entries are drawn from `kids`.
TreesOf(names, kids) == {Dir(e) : e \in UNION {[S -> kids] : S \in SUBSET names}}

Files == {Reg(1), Reg(2)}
Links == {Lnk(Absent), Lnk(Reg(1))}
Trees == TreesOf({X}, Files \cup {Dir(<<>>)}) \cup {Dir(X :> Reg(1) @@ Y :> Reg(2))}
Backups == {Absent, Reg(1), Lnk(Dir(<<>>)), Dir(X :> Reg(2))}

\* What the objects under test start as.  A backup is only ever made of a
\* regular file (line 98), so one is present only next to regular files.
Tops == {Absent, Other} \cup Files \cup Links \cup Trees

StartFS ==
    {   (A :> a) @@ (A \o DotNew :> an) @@ (A \o DotBak :> ab)
     @@ (B :> b) @@ (B \o DotNew :> bn) @@ (B \o DotBak :> Absent) :
        <<a, an, ab, b, bn>> \in
            {t \in Tops \X Tops \X Backups \X {Absent, Reg(1)} \X {Absent, Reg(1), Reg(2)} :
                t[3] # Absent => t[1].k = "reg" /\ t[2].k = "reg"}}

Init ==
    /\ argv \in Batches
    /\ fs \in StartFS
    /\ idx = 1
    /\ pc = "main"
    /\ cur_path = <<>>
    /\ new_path = <<>>
    /\ action_for_item_ = <<>>
    /\ would_ = NoGroups
    /\ response = ""
    /\ exit_status = "running"
    /\ errlog = <<>>
    /\ views = <<>>
    /\ inputs = 0
    /\ pre = fs
    /\ start = fs

Next ==
    \/ MainArg
    \/ MainReturn
    \/ FileReprompt
    \/ FileY
    \/ FileB
    \/ FileN
    \/ FileQ
    \/ DirReprompt
    \/ DirD
    \/ DirC
    \/ DirA
    \/ DirL
    \/ DirN
    \/ DirY
    \/ RmtreeStep
    \/ InstallRename

Spec == Init /\ [][Next]_vars

\* ------------------------------------------------- runs over richer trees
\* One argument, given up to MaxArgs times over, whose two trees hold nested
\* directories, editor swap files, symbolic links and several names.
C == <<"c">>
Swp == <<".", "x", ".", "s", "w", "p">>

Repeats == UNION {[1 .. n -> {A}] : n \in 1 .. MaxArgs}

Kids ==
    Files \cup
    { Dir(<<>>), Dir(X :> Reg(1)), Dir(X :> Reg(2)), Dir(Swp :> Reg(1)),
      Lnk(Reg(1)), Lnk(Dir(X :> Reg(1))), Lnk(Dir(X :> Reg(2))) }

WithSwap(tree) ==
    {tree} \cup {Dir(tree.e @@ (Swp :> f)) : f \in Files}

RichTrees ==
    UNION {WithSwap(t) : t \in TreesOf({X}, Kids)} \cup
    { Dir(X :> Reg(1) @@ Y :> Reg(2)),
      Dir(X :> Dir(X :> Reg(1)) @@ Y :> Reg(2)),
      Dir(X :> Dir(<<>>) @@ C :> Reg(3)),
      Dir(X :> Dir(X :> Dir(<<>>))),
      Dir(A :> Reg(1) @@ B :> Reg(2)),
      Dir(A :> Reg(1) @@ C :> Reg(3)) }

TreeFS ==
    {   (A :> a) @@ (A \o DotNew :> an) @@ (A \o DotBak :> Absent)
     @@ (B :> Absent) @@ (B \o DotNew :> Absent) @@ (B \o DotBak :> Absent) :
        <<a, an>> \in (RichTrees \cup Files) \X (RichTrees \cup Files)}

InitTree ==
    /\ argv \in Repeats
    /\ fs \in TreeFS
    /\ idx = 1
    /\ pc = "main"
    /\ cur_path = <<>>
    /\ new_path = <<>>
    /\ action_for_item_ = <<>>
    /\ would_ = NoGroups
    /\ response = ""
    /\ exit_status = "running"
    /\ errlog = <<>>
    /\ views = <<>>
    /\ inputs = 0
    /\ pre = fs
    /\ start = fs

SpecTree == InitTree /\ [][Next]_vars

\* ----------------------------------------------------------------- claims
Terminal == {"done", "exited", "crashed"}

\* Some argument has been taken up: cur_path, new_path and pre are its.
Taken == cur_path # <<>>
bak_path == cur_path \o DotBak

\* The argument taken up last went to the directory / single-file workflow.
WasDirs == Taken /\ pre[cur_path].k = "dir" /\ pre[new_path].k = "dir"
WasFiles == Taken /\ pre[cur_path].k = "reg" /\ pre[new_path].k = "reg"

\* The workflow of the argument taken up last has returned to main, which
\* has not taken up another argument since.
Returned == pc \in {"main", "done"} /\ idx > 1

\* C1 as stated: after 'n' at the directory prompt the workflow has ended,
\* the new tree is gone and the current tree is as it was.
C1_SkipDiscardsNewTree ==
    (WasDirs /\ response = "n") =>
        /\ Returned
        /\ fs[new_path] = Absent
        /\ fs[cur_path] = pre[cur_path]

\* C1 amended: after 'n' at the directory prompt the workflow has ended and
\* both the new tree and the current tree are as they were.
C1_SkipLeavesBothTrees ==
    (WasDirs /\ response = "n") =>
        /\ Returned
        /\ fs = pre
        /\ fs[new_path].k = "dir"

C1_Witness == WasDirs /\ response = "n" /\ Returned

\* C2: after 'y' at the directory prompt the new root is still in place for
\* as long as the current root is being removed, the move is attempted only
\* once nothing is left at the current root, and in the end the current
\* root holds what the new root held and the new root is gone.
C2_InstallWholeTree ==
    /\ pc = "rmtree" => fs[new_path] = pre[new_path] /\ fs[cur_path].k = "dir"
    /\ pc = "rename" => fs[new_path] = pre[new_path] /\ fs[cur_path] = Absent
    /\ (WasDirs /\ response = "y" /\ pc \notin {"rmtree", "rename"}) =>
          /\ Returned
          /\ fs = [pre EXCEPT ![cur_path] = pre[new_path], ![new_path] = Absent]

C2_Witness ==
    /\ WasDirs /\ response = "y" /\ Returned
    /\ Cardinality(DOMAIN pre[cur_path].e) = 2
    /\ fs[cur_path] # pre[cur_path]

\* C3: after 'b' at the single-file prompt, whatever the backup path held
\* (nothing, a file or a directory), the backup holds what the current path
\* held, the current path holds what the new path held, and the new path
\* is gone.
C3_BackupThenReplace ==
    (WasFiles /\ response = "b" /\ pre[bak_path].k \in {"absent", "reg", "dir"}) =>
        /\ Returned
        /\ fs = [pre EXCEPT ![bak_path] = pre[cur_path],
                            ![cur_path] = pre[new_path],
                            ![new_path] = Absent]

C3_Witness ==
    /\ WasFiles /\ response = "b" /\ Returned
    /\ pre[bak_path].k = "dir"
    /\ fs[bak_path] = Reg(2)

\* C4: after 'y' at the single-file prompt the current path holds what the
\* new path held, the new path is gone and the backup is as it was; after
\* 'n' nothing has changed.
C4_ReplaceOrSkipFile ==
    /\ (WasFiles /\ response = "y") =>
          /\ Returned
          /\ fs = [pre EXCEPT ![cur_path] = pre[new_path], ![new_path] = Absent]
          /\ fs[bak_path] = pre[bak_path]
    /\ (WasFiles /\ response = "n") =>
          /\ Returned
          /\ fs = pre

C4_Witness ==
    /\ WasFiles /\ response = "y" /\ Returned
    /\ pre[bak_path] # Absent
    /\ fs[cur_path] # pre[cur_path]

\* What the claims call a path that does not exist, and an object that is
\* neither a regular file nor a directory.
Missing(node) == node.k = "absent" \/ (node.k = "lnk" /\ node.t.k = "absent")
Unsupported(node) == node.k \in {"other", "lnk"}

\* The last status line is `tag`, written for the argument taken up last.
LastLine(tag) ==
    /\ errlog # <<>>
    /\ errlog[Len(errlog)] = [arg |-> idx - 1, msg |-> tag]

\* An argument the claims expect main to reject: its candidate does not
\* exist, or both sides exist and one is neither regular file nor directory,
\* or they are a file and a directory.
Rejectable ==
    \/ Missing(pre[new_path])
    \/ /\ ~Missing(pre[cur_path])
       /\ \/ Unsupported(pre[cur_path])
          \/ Unsupported(pre[new_path])
          \/ {pre[cur_path].k, pre[new_path].k} = {"reg", "dir"}

\* What the claims call a clash inside the trees: a name that is not
\* ignored, present on both sides at some level, and not a regular file on
\* both sides nor a directory on both sides.
RECURSIVE EntryError(_, _)
EntryError(c, n) ==
    \E nm \in (DOMAIN c.e \cap DOMAIN n.e) :
        /\ ~fnmatchcase(nm)
        /\ IF c.e[nm].k = "dir" /\ n.e[nm].k = "dir"
           THEN EntryError(c.e[nm], n.e[nm])
           ELSE ~(c.e[nm].k = "reg" /\ n.e[nm].k = "reg")

\* The argument taken up last is in error: at the top level, or on an entry
\* inside its trees.
HitError ==
    /\ Taken
    /\ \/ Rejectable
       \/ WasDirs /\ EntryError(pre[cur_path], pre[new_path])

\* C5 as stated: an argument in error never keeps the later ones from being
\* processed; when the run has ended on such an argument with arguments
\* left, the operator has answered 'q'.
C5_ErrorsAreIsolated ==
    (pc \in Terminal /\ idx < Len(argv) /\ HitError) =>
        (pc = "exited" /\ response = "q")

\* C6 as stated: a run that has ended has exit status 0 unless the operator
\* answered 'q' at a single-file prompt, and then it is not 0.
C6_ExitStatus ==
    pc \in Terminal =>
        IF WasFiles /\ response = "q" /\ pc = "exited"
        THEN exit_status # 0
        ELSE exit_status = 0

\* C7: once the operator has answered 'q' at a single-file prompt the run
\* is over with a non-zero status and takes no further step; the file asked
\* about and everything else is as it was when its argument was taken up
\* (earlier arguments' changes included), and no later argument has been
\* examined.
C7_QuitStopsTheRun ==
    (WasFiles /\ response = "q") =>
        /\ pc = "exited"
        /\ exit_status = 1
        /\ ~ENABLED Next
        /\ fs = pre
        /\ idx <= Len(argv)
        /\ cur_path = CurOf(argv[idx])
        /\ \A j \in 1 .. Len(errlog) : errlog[j].arg < idx

C7_Witness ==
    /\ WasFiles /\ response = "q" /\ pc = "exited"
    /\ idx < Len(argv)

\* C8: at either prompt, a step that reads a line outside the prompt's
\* alphabet changes nothing but the line read and the count of lines read:
\* the file system, the position in the workflow and in the batch, the
\* verb groups, the exit status and the output stay as they are.
C8_InvalidInputReprompts ==
    [][(/\ pc \in {"file_prompt", "dir_prompt"}
        /\ inputs' # inputs
        /\ response' \notin (IF pc = "file_prompt" THEN {"y", "b", "n", "q"}
                                                  ELSE {"d", "c", "a", "l", "y", "n"}))
         => UNCHANGED <<fs, argv, start, idx, pc, cur_path, new_path, would_, action_for_item_,
                        exit_status, errlog, views, pre>>]_vars

C8_Witness ==
    /\ pc = "dir_prompt"
    /\ response = "q"
    /\ inputs = MaxInputs
    /\ fs = pre

C10_InstallWhereNothingIs ==
    (Taken /\ pre[cur_path] = Absent /\ ~Missing(pre[new_path])) =>
        /\ Returned
        /\ response = ""
        /\ LastLine("installing there")
        /\ fs = [pre EXCEPT ![cur_path] = pre[new_path], ![new_path] = Absent]

C10_Witness ==
    /\ Taken /\ Returned
    /\ pre[cur_path] = Absent
    /\ pre[new_path].k = "dir"
    /\ fs[cur_path] = pre[new_path]
    /\ fs[new_path] = Absent

\* ------------------------------------------------ claims about the walk
\* A name the walk is to ignore: an editor swap file.
Ignored(nm) ==
    /\ Len(nm) >= 5
    /\ nm[1] = "."
    /\ SubSeq(nm, Len(nm) - 3, Len(nm)) = <<".", "s", "w", "p">>

\* The handle_dirs walk of the argument taken up last ran to its end.
Walked == WasDirs /\ pc # "crashed"

\* action_for_item_ as a set of <<path, verb>> pairs.
Recorded == {<<p, action_for_item_[p]>> : p \in DOMAIN action_for_item_}

\* The classification C11 states, read off the kinds of the entries
\* themselves: a name on one side only is deleted or created, a regular
\* file on both sides is left or altered, a directory on both sides is
\* descended into and gets no verb of its own.
RECURSIVE Classified(_, _, _)
Classified(c, n, dir_rel_path) ==
    UNION {
        LET p == dir_rel_path \o Slash \o nm
        IN  IF nm \notin DOMAIN n.e THEN {<<p, "delete">>}
            ELSE IF nm \notin DOMAIN c.e THEN {<<p, "create">>}
            ELSE IF c.e[nm].k = "reg" /\ n.e[nm].k = "reg"
            THEN {<<p, IF c.e[nm].c = n.e[nm].c THEN "leave" ELSE "alter">>}
            ELSE IF c.e[nm].k = "dir" /\ n.e[nm].k = "dir"
            THEN Classified(c.e[nm], n.e[nm], p)
            ELSE {}
        : nm \in {m \in DOMAIN c.e \cup DOMAIN n.e : ~Ignored(m)}}

\* C11: whenever the walk of two trees runs to its end, the verbs it has
\* recorded are exactly those of the stated classification: delete for a
\* path only in the current tree, create for one only in the new tree,
\* leave / alter for a regular file on both sides with equal / different
\* bytes, and a descent, with no verb, exactly for a directory on both sides.
C11_Classification ==
    Walked => Recorded = Classified(pre[cur_path], pre[new_path], Dot)

\* A tree of directories and regular files only.
RECURSIVE Plain(_)
Plain(node) ==
    \/ node.k = "reg"
    \/ node.k = "dir" /\ \A nm \in DOMAIN node.e : Plain(node.e[nm])

\* main is about to take up an argument whose current and new objects are
\* directories with the same entries, byte for byte, at every level.
AtIdenticalTrees ==
    /\ pc = "main"
    /\ idx <= Len(argv)
    /\ LET cur == fs[CurOf(argv[idx])]
           new == fs[NewOf(argv[idx])]
       IN  cur.k = "dir" /\ Plain(cur) /\ new = cur

\* C12: when the two trees match entry for entry and byte for byte, the
\* step that takes the argument up finds the delete, create and alter groups
\* empty, removes the new tree, reads no response, starts no viewer, leaves
\* everything else in the file system as it was and returns to main.
C12_IdenticalTreesDiscardCandidate ==
    [][AtIdenticalTrees =>
        /\ \A verb \in {"delete", "create", "alter"} : would_'[verb] = <<>>
        /\ fs' = [fs EXCEPT ![NewOf(argv[idx])] = Absent]
        /\ inputs' = inputs
        /\ response' = ""
        /\ views' = views
        /\ pc' = "main"
        /\ idx' = idx + 1]_vars

C12_Witness ==
    /\ WasDirs
    /\ Plain(pre[cur_path])
    /\ pre[new_path] = pre[cur_path]
    /\ \E nm \in DOMAIN pre[cur_path].e :
           /\ pre[cur_path].e[nm].k = "dir"
           /\ pre[cur_path].e[nm].e # <<>>
    /\ fs[new_path] = Absent
    /\ fs[cur_path] = pre[cur_path]
    /\ Returned

\* Some component of the relative path p is an ignored name.
HasIgnored(p) ==
    \E i, j \in 1 .. Len(p) :
        /\ i <= j
        /\ i = 1 \/ p[i - 1] = "/"
        /\ j = Len(p) \/ p[j + 1] = "/"
        /\ \A k \in i .. j : p[k] # "/"
        /\ Ignored(SubSeq(p, i, j))

\* The tree without its ignored entries, at every level.
RECURSIVE Stripped(_)
Stripped(node) ==
    IF node.k = "dir"
    THEN Dir([nm \in {m \in DOMAIN node.e : ~Ignored(m)} |-> Stripped(node.e[nm])])
    ELSE IF node.k = "lnk" THEN Lnk(Stripped(node.t))
    ELSE node

\* C13: an entry whose name matches the swap-file glob, at any level of
\* either tree, is a key of action_for_item_ and a member of a verb group
\* never, and the walk ends as, and records what, it would for the same two
\* trees without such entries.
C13_SwapFilesAreInvisible ==
    WasDirs =>
        LET bare == recurse_on_rel_path(Stripped(pre[cur_path]),
                                        Stripped(pre[new_path]), Dot)
        IN  /\ (pc = "crashed") <=> ~bare.ok
            /\ Walked =>
                  /\ action_for_item_ = bare.acts
                  /\ \A p \in DOMAIN action_for_item_ : ~HasIgnored(p)
                  /\ \A verb \in Verbs : \A i \in 1 .. Len(would_[verb]) :
                         ~HasIgnored(would_[verb][i])

\* The walk ran over a swap file on top, one a level down and one whose
\* twin on the other side has other bytes, and recorded other paths.
C13_Witness ==
    /\ Walked
    /\ action_for_item_ # <<>>
    /\ \E nm \in DOMAIN pre[cur_path].e : Ignored(nm)
    /\ \E nm \in DOMAIN pre[new_path].e :
           /\ Ignored(nm)
           /\ nm \in DOMAIN pre[cur_path].e
           /\ pre[new_path].e[nm] # pre[cur_path].e[nm]
    /\ \E nm \in DOMAIN pre[cur_path].e :
           /\ pre[cur_path].e[nm].k = "dir"
           /\ \E m \in DOMAIN pre[cur_path].e[nm].e : Ignored(m)

\* main is about to take up an argument whose current and new objects are
\* regular files with the same bytes.
AtIdenticalFiles ==
    /\ pc = "main"
    /\ idx <= Len(argv)
    /\ LET cur == fs[CurOf(argv[idx])]
           new == fs[NewOf(argv[idx])]
       IN  cur.k = "reg" /\ new.k = "reg" /\ cur.c = new.c

\* C14 as stated: two byte-identical files are found unchanged, nothing is
\* asked, and the file system after the workflow is the one before it.
C14_IdenticalFilesNothingMutated ==
    (WasFiles /\ pre[cur_path].c = pre[new_path].c) =>
        /\ Returned
        /\ LastLine("No change")
        /\ response = ""
        /\ fs = pre

\* C14, amended: two byte-identical files are found unchanged; nothing is
\* asked and no viewer is started, the current file and everything else
\* stay as they were, and the new file, and only it, is removed.
C14_IdenticalFilesDiscardCandidate ==
    [][AtIdenticalFiles =>
        /\ fs' = [fs EXCEPT ![NewOf(argv[idx])] = Absent]
        /\ fs'[CurOf(argv[idx])] = fs[CurOf(argv[idx])]
        /\ errlog' = Append(errlog, Line("No change"))
        /\ inputs' = inputs
        /\ response' = ""
        /\ views' = views
        /\ pc' = "main"
        /\ idx' = idx + 1]_vars

C14_Witness ==
    /\ WasFiles
    /\ pre[cur_path].c = pre[new_path].c
    /\ Returned
    /\ LastLine("No change")
    /\ fs[new_path] = Absent
    /\ fs[cur_path] = pre[cur_path]

\* The directory workflow has just been run twice on the same argument,
\* the first two of the run, and 'n' was the answer that ended it each time.
SkippedTwice ==
    /\ idx = 3
    /\ pc \in {"main", "done"}
    /\ CurOf(argv[1]) = CurOf(argv[2])
    /\ \E i, j \in 1 .. Len(errlog) :
           /\ errlog[i] = [arg |-> 1, msg |-> "skipping"]
           /\ errlog[j] = [arg |-> 2, msg |-> "skipping"]

\* C15: after the directory workflow has been run twice in a row on the
\* same argument and answered 'n' both times, the current tree is what it
\* was before the first of the two runs.
C15_SkipTwice ==
    SkippedTwice => fs[cur_path] = start[cur_path]

C15_Witness ==
    /\ SkippedTwice
    /\ start[cur_path].k = "dir"
    /\ start[cur_path].e # <<>>
    /\ fs[cur_path] = start[cur_path]
    /\ fs[new_path] # start[cur_path]

\* s comes before t in the order of their code points, position by position.
LexBefore(s, t) ==
    \E k \in 1 .. Len(t) :
        /\ \A i \in 1 .. k - 1 : i <= Len(s) /\ s[i] = t[i]
        /\ k > Len(s) \/ Ord(s[k]) < Ord(t[k])

Members(seq) == {seq[i] : i \in 1 .. Len(seq)}

\* What the relative path p, "./name/name...", leads to under node, links
\* followed; Absent when it leads nowhere.
RECURSIVE Under(_, _)
Under(node, rest) ==
    IF rest = <<>> THEN node
    ELSE LET d == Follow(node)
             j == CHOOSE i \in 1 .. Len(rest) + 1 :
                      /\ i = Len(rest) + 1 \/ rest[i] = "/"
                      /\ \A h \in 1 .. i - 1 : rest[h] # "/"
             nm == SubSeq(rest, 1, j - 1)
         IN  IF d.k # "dir" \/ nm \notin DOMAIN d.e THEN Absent
             ELSE Under(d.e[nm], SubSeq(rest, j + 1, Len(rest)))

NodeAt(root, p) == Under(root, SubSeq(p, 3, Len(p)))

\* C16: the four verb groups are pairwise disjoint, together they hold
\* exactly the paths that have a verb in action_for_item_, each path is in
\* the group of its own verb, each group is in increasing lexicographic
\* order, and no path the walk descended into is in any group.
C16_GroupsPartitionActions ==
    /\ \A v, w \in Verbs : v # w => Members(would_[v]) \cap Members(would_[w]) = {}
    /\ UNION {Members(would_[v]) : v \in Verbs} = DOMAIN action_for_item_
    /\ \A v \in Verbs : \A p \in Members(would_[v]) : action_for_item_[p] = v
    /\ \A v \in Verbs : \A i, j \in 1 .. Len(would_[v]) :
           i < j => LexBefore(would_[v][i], would_[v][j])
    /\ Walked =>
           \A v \in Verbs : \A p \in Members(would_[v]) :
               ~(/\ Follow(NodeAt(pre[cur_path], p)).k = "dir"
                 /\ Follow(NodeAt(pre[new_path], p)).k = "dir")

\* A group of two paths, one of them below a directory descended into.
C16_Witness ==
    /\ Walked
    /\ \E v \in Verbs :
           /\ Len(would_[v]) >= 2
           /\ \E p \in Members(would_[v]),
                 q \in DOMAIN pre[cur_path].e \cap DOMAIN pre[new_path].e :
                  /\ Len(p) > Len(Dot \o Slash \o q)
                  /\ SubSeq(p, 1, Len(q) + 3) = Dot \o Slash \o q \o Slash
                  /\ pre[cur_path].e[q].k = "dir"
                  /\ pre[new_path].e[q].k = "dir"
    /\ \E v, w \in Verbs : v # w /\ would_[v] # <<>> /\ would_[w] # <<>>

\* The group the keys d, c, a and l stand for.
Examined(key) ==
    IF key = "d" THEN would_["delete"]
    ELSE IF key = "c" THEN would_["create"]
    ELSE IF key = "a" THEN would_["alter"]
    ELSE would_["leave"]

\* C17: a step that reads d, c, a or l at the directory prompt starts the
\* viewer once for each path of that key's group, in the group's order, on
\* the path's two sides, whatever status the viewers end with; it changes
\* nothing in the file system and stays at the prompt.  A step that leaves
\* the directory prompt has read y or n.
C17_ExamineAndReprompt ==
    [][/\ (pc = "dir_prompt" /\ inputs' # inputs /\ response' \in {"d", "c", "a", "l"}) =>
            LET items == Examined(response')
            IN  /\ Len(views') = Len(views) + Len(items)
                /\ SubSeq(views', 1, Len(views)) = views
                /\ \A j \in 1 .. Len(items) :
                       /\ views'[Len(views) + j].L = cur_path \o Slash \o items[j]
                       /\ views'[Len(views) + j].R = new_path \o Slash \o items[j]
                /\ pc' = "dir_prompt"
                /\ UNCHANGED <<fs, idx, cur_path, new_path, would_, action_for_item_,
                               exit_status>>
       /\ (pc = "dir_prompt" /\ pc' # "dir_prompt") => response' \in {"y", "n"}
      ]_vars

\* Back at the prompt after 'd' showed two paths, one viewer ending non-zero.
C17_Witness ==
    /\ pc = "dir_prompt"
    /\ response = "d"
    /\ Len(would_["delete"]) = 2
    /\ Len(views) = 2
    /\ views[1].L = cur_path \o Slash \o would_["delete"][1]
    /\ views[2].R = new_path \o Slash \o would_["delete"][2]
    /\ views[1].rc = 1
    /\ fs = pre

\* The relative paths p passes through on its way down, p itself excluded.
Above(p) ==
    {SubSeq(p, 1, i - 1) : i \in {h \in 4 .. Len(p) : p[h] = "/"}}

\* C18, for the walk: an entry that is a symbolic link is never descended
\* into, so no path below a link, on either side, is compared or given a
\* verb.
C18_LinksNeverFollowed ==
    Walked =>
        \A p \in DOMAIN action_for_item_ : \A q \in Above(p) :
            /\ NodeAt(pre[cur_path], q).k # "lnk"
            /\ NodeAt(pre[new_path], q).k # "lnk"

\* Some name that is not ignored is a regular file on one side and a
\* directory on the other, at the top of the two trees or below
\* directories they share.
RECURSIVE KindClash(_, _)
KindClash(c, n) ==
    \E nm \in DOMAIN c.e \cap DOMAIN n.e :
        /\ ~Ignored(nm)
        /\ \/ c.e[nm].k = "reg" /\ n.e[nm].k = "dir"
           \/ c.e[nm].k = "dir" /\ n.e[nm].k = "reg"
           \/ c.e[nm].k = "dir" /\ n.e[nm].k = "dir" /\ KindClash(c.e[nm], n.e[nm])

HadKindClash == WasDirs /\ KindClash(pre[cur_path], pre[new_path])

\* C19: when a name is a file on one side and a directory on the other,
\* no verb is recorded, the directory prompt is not reached and no response
\* is read for the argument, and the file system stays as the argument
\* found it.
C19_KindClashPicksNoSide ==
    HadKindClash =>
        /\ action_for_item_ = <<>>
        /\ would_ = NoGroups
        /\ pc \notin {"dir_prompt", "rmtree", "rename"}
        /\ response = ""
        /\ fs = pre

\* The clash sits a level down, next to entries that differ.
C19_Witness ==
    /\ HadKindClash
    /\ \E nm \in DOMAIN pre[cur_path].e \cap DOMAIN pre[new_path].e :
           /\ pre[cur_path].e[nm].k = "dir"
           /\ pre[new_path].e[nm].k = "dir"
           /\ KindClash(pre[cur_path].e[nm], pre[new_path].e[nm])
    /\ pc = "crashed"
    /\ fs = pre

\* C20: once 'y' has been carried out, what is at cur_path is the whole of
\* the former new tree and nothing of the former current tree: an ignored
\* name is there exactly if the new tree had it, with the new tree's
\* content, although no group ever listed it.
C20_InstallIgnoresTheGroups ==
    (WasDirs /\ response = "y" /\ Returned) =>
        /\ fs[cur_path].k = "dir"
        /\ \A nm \in DOMAIN fs[cur_path].e \cup DOMAIN pre[new_path].e :
               /\ nm \in DOMAIN fs[cur_path].e
               /\ nm \in DOMAIN pre[new_path].e
               /\ fs[cur_path].e[nm] = pre[new_path].e[nm]
        /\ fs[new_path] = Absent

\* 'y' replaced one swap file by another that no group had listed: more
\* paths changed than the delete, create and alter groups hold.
C20_Witness ==
    /\ WasDirs
    /\ response = "y"
    /\ Returned
    /\ \E nm \in DOMAIN pre[cur_path].e \cap DOMAIN fs[cur_path].e :
           /\ Ignored(nm)
           /\ fs[cur_path].e[nm] # pre[cur_path].e[nm]
           /\ fs[cur_path].e[nm] = pre[new_path].e[nm]
           /\ \A v \in Verbs : \A p \in Members(would_[v]) : ~HasIgnored(p)
    /\ \E v \in {"delete", "create", "alter"} : would_[v] # <<>>
====
